---- MODULE Spec2Model ----
(***************************************************************************)
(* Cost-directed algebraic simplifier of alexezh/fooljs: the symbol cache, *)
(* the goal recognizer, the heuristic, the rewrite generators, the action  *)
(* multiplexer and the best-first search driver.                           *)
(*                                                                         *)
(* Refs are records {refType, value, symbol, arefs, role, sign}.  A null   *)
(* value is the empty sequence, a known value v is <<v>>; a null symbol is *)
(* the empty string (Array.join prints null as "").  Inputs are flattened  *)
(* ref sequences T0 (op Ti)* over numbers, a named variable and composites *)
(* with ops + - *; '/', '^' and parentheses do not occur, so the div and   *)
(* parenthesis generators are exhausted at their first next().             *)
(***************************************************************************)
EXTENDS Integers, Sequences, FiniteSets, TLC

(***************************************************************************)
(* Bounds of the model                                                     *)
(***************************************************************************)
MaxTerms == 3
MaxChain == 4
MaxModels == 40
MaxSym == 12
MaxCancelTerms == 5

\* pushes onto a heap taken alone
MaxPushes == 4

\* calls of Game.sendMessage
MaxMessages == 4

(***************************************************************************)
(* Cost constants (COST table)                                             *)
(***************************************************************************)
ADD_ZERO == 1
ADD_SINGLE_DIGIT == 1
ADD_PER_DIGIT == 1
SUB_IDENTICAL == 1
SUB_DIFF_BY_ONE == 2
SUB_PER_DIGIT == 1
MUL_BY_ZERO == 1
MUL_BY_ONE == 1
MUL_SINGLE_DIGIT == 2
MUL_DIGIT_EXPONENT == 2
VAR_BASE_COST == 10
VAR_COMBINE_COST == 3
VAR_CANCEL_REWARD == -5
EXPR_COMBINE_COST == 2
COEFF_VAR_MUL == 2
SAME_VAR_MUL == 2
ARRAY_ACTION_COST == 1
MAX_EXPR_VALUE == 100

(***************************************************************************)
(* Small helpers                                                           *)
(***************************************************************************)
Max2(a, b) == IF a >= b THEN a ELSE b

Abs(n) == IF n < 0 THEN -n ELSE n

Last(s) == s[Len(s)]

\* tokens.slice(from0, to0) with 0-based, end-exclusive indexes
Slice(s, from0, to0) ==
  IF to0 <= from0 THEN <<>> ELSE SubSeq(s, from0 + 1, IF to0 > Len(s) THEN Len(s) ELSE to0)

RECURSIVE Join(_)
\* symbols.join('|')
Join(syms) ==
  IF Len(syms) = 0 THEN ""
  ELSE IF Len(syms) = 1 THEN syms[1]
  ELSE syms[1] \o "|" \o Join(Tail(syms))

RECURSIVE Pow(_, _)
Pow(b, e) == IF e = 0 THEN 1 ELSE b * Pow(b, e - 1)

RECURSIVE Log10(_)
\* Math.log10 on the exact powers of ten the heuristic uses
Log10(n) == IF n < 10 THEN 0 ELSE 1 + Log10(n \div 10)

(***************************************************************************)
(* ARef                                                                    *)
(***************************************************************************)
NoValue == <<>>

InternalName(k) == "?" \o ToString(k)

InternalNames == {InternalName(k) : k \in 1..(MaxSym + 8)}

NewARef(refType, value, symbol, arefs, role, sign) ==
  [refType |-> refType, value |-> value, symbol |-> symbol,
   arefs |-> arefs, role |-> role, sign |-> sign]

isNumber(r) == r.refType = "number"

isOp(r) == r.refType = "op"

isSymbol(r) == r.refType = "symbol"

isInternalSymbol(r) == r.symbol # "" /\ r.symbol \in InternalNames

isPublicVariable(r) == r.symbol # "" /\ r.symbol \notin InternalNames

createOpRef(op) == NewARef("op", NoValue, op, <<>>, "", "")

\* createNumberRef leaves symbol unset
createNumberRef(val) == NewARef("number", <<val>>, "", <<>>, "", "")

\* arefs[1].token?.text === '^' : no ref of the model carries a '^' token
isExp(r) == Len(r.arefs) >= 2 /\ r.arefs[2].symbol = "^"

getPower(r) == IF isExp(r) THEN r.arefs[3] ELSE createNumberRef(1)

PowerValue(r) ==
  LET p == getPower(r) IN IF isNumber(p) /\ p.value # NoValue THEN p.value[1] ELSE 1

tokenEquals(r, str) == r.symbol = str

\* parseInt(symbol || '0', 10) over the numerals of the model
ParseInt(sym) ==
  IF sym = "" THEN 0
  ELSE LET hits == {n \in -99..999 : ToString(n) = sym}
       IN IF hits = {} THEN 0 ELSE CHOOSE n \in hits : TRUE

\* value ?? parseInt(symbol || '0', 10)
NumericValue(r) == IF r.value # NoValue THEN r.value[1] ELSE ParseInt(r.symbol)

(***************************************************************************)
(* Symbol cache                                                            *)
(***************************************************************************)
EmptyCache == [map |-> <<>>, nextInternalVarNum |-> 1]

CacheKeys(cache) == {cache.map[i][1] : i \in 1..Len(cache.map)}

CacheGet(cache, key) ==
  LET i == CHOOSE j \in 1..Len(cache.map) : cache.map[j][1] = key IN cache.map[i][2]

\* makeSymbol, on the joined key: the name and the cache afterwards
makeSymbolKey_alwaysFresh(cache, key) ==
  [symbol |-> InternalName(cache.nextInternalVarNum),
   cache |-> [map |-> Append(cache.map, <<key, InternalName(cache.nextInternalVarNum)>>),
              nextInternalVarNum |-> cache.nextInternalVarNum + 1]]

makeSymbolKey(cache, key) ==
  IF key \in CacheKeys(cache)
  THEN [symbol |-> CacheGet(cache, key), cache |-> cache]
  ELSE [symbol |-> InternalName(cache.nextInternalVarNum),
        cache |-> [map |-> Append(cache.map, <<key, InternalName(cache.nextInternalVarNum)>>),
                   nextInternalVarNum |-> cache.nextInternalVarNum + 1]]

SymbolsOf(arefs) == [i \in 1..Len(arefs) |-> arefs[i].symbol]

\* a cache keyed by the first child alone
makeSymbol_firstChildOnly(cache, arefs) ==
  makeSymbolKey(cache, IF Len(arefs) = 0 THEN "" ELSE arefs[1].symbol)

makeSymbol(cache, arefs) == makeSymbolKey(cache, Join(SymbolsOf(arefs)))

\* a createSymbolRef that runs the compute of a composite of two numbers at once
SymbolRefOf_eager(got, arefs) ==
  [ref |-> NewARef("symbol",
                   IF Len(arefs) = 2 /\ isNumber(arefs[1]) /\ isNumber(arefs[2])
                   THEN <<NumericValue(arefs[1]) * NumericValue(arefs[2])>> ELSE NoValue,
                   got.symbol, arefs, "", ""),
   cache |-> got.cache]

\* createSymbolRef: value null, refType symbol, no role, no sign
SymbolRefOf(got, arefs) ==
  [ref |-> NewARef("symbol", NoValue, got.symbol, arefs, "", ""), cache |-> got.cache]

createSymbolRef(cache, arefs) == SymbolRefOf(makeSymbol(cache, arefs), arefs)

(***************************************************************************)
(* Cost calculation helpers                                                *)
(***************************************************************************)
RECURSIVE DigitsOf(_)
DigitsOf(n) == IF n < 10 THEN 1 ELSE 1 + DigitsOf(n \div 10)

\* Math.abs(value).toString().length
countDigits(value) == DigitsOf(Abs(value))

calculateAdditionCost(leftValue, rightValue) ==
  IF leftValue = 0 \/ rightValue = 0 THEN ADD_ZERO
  ELSE IF countDigits(leftValue) = 1 /\ countDigits(rightValue) = 1 THEN ADD_SINGLE_DIGIT
  ELSE Max2(countDigits(leftValue), countDigits(rightValue)) * ADD_PER_DIGIT

calculateSubtractionCost(leftValue, rightValue) ==
  IF leftValue = rightValue THEN SUB_IDENTICAL
  ELSE IF Abs(leftValue - rightValue) = 1 THEN SUB_DIFF_BY_ONE
  ELSE Max2(countDigits(leftValue), countDigits(rightValue)) * SUB_PER_DIGIT

calculateMultiplicationCost(leftValue, rightValue) ==
  IF leftValue = 0 \/ rightValue = 0 THEN MUL_BY_ZERO
  ELSE IF leftValue = 1 \/ rightValue = 1 THEN MUL_BY_ONE
  ELSE IF countDigits(leftValue) = 1 /\ countDigits(rightValue) = 1 THEN MUL_SINGLE_DIGIT
  ELSE Pow(Max2(countDigits(leftValue), countDigits(rightValue)), MUL_DIGIT_EXPONENT)

\* like terms: only two numbers (the variable branches are commented out)
canAddTerms(a, b) == isNumber(a) /\ isNumber(b)

getVariableName(r) == IF r.refType = "symbol" THEN r.symbol ELSE ""

calculateTermAddCost(a, b, op) ==
  IF isNumber(a) /\ isNumber(b)
  THEN IF op = "+" THEN calculateAdditionCost(NumericValue(a), NumericValue(b))
       ELSE calculateSubtractionCost(NumericValue(a), NumericValue(b))
  ELSE IF isSymbol(a) /\ isSymbol(b)
  THEN IF op = "-" /\ getVariableName(a) = getVariableName(b) /\ PowerValue(a) = PowerValue(b)
       THEN VAR_CANCEL_REWARD
       ELSE IF getVariableName(a) = getVariableName(b) /\ PowerValue(a) = PowerValue(b)
       THEN VAR_COMBINE_COST
       ELSE VAR_BASE_COST
  ELSE IF op = "-" /\ a.symbol = b.symbol THEN VAR_CANCEL_REWARD
  ELSE EXPR_COMBINE_COST

(***************************************************************************)
(* Goal recognizer                                                         *)
(***************************************************************************)
\* counts[k] = counts[k] ?? 0 + 1  parses as  counts[k] ?? (0 + 1)
Bump(counts, k) == IF k \in DOMAIN counts THEN counts ELSE counts @@ (k :> 0 + 1)

RECURSIVE goalScan(_, _, _)
\* the for-loop over refs from position i on: FALSE on an early return,
\* otherwise whether every collected count is 1
goalScan(refs, i, counts) ==
  IF i > Len(refs) THEN \A k \in DOMAIN counts : counts[k] = 1
  ELSE LET token == refs[i] IN
    IF isNumber(token) THEN goalScan(refs, i + 1, Bump(counts, "_number"))
    ELSE IF isOp(token) THEN goalScan(refs, i + 1, counts)
    ELSE IF isInternalSymbol(token)
    THEN IF Len(token.arefs) # 3 THEN FALSE
         ELSE LET t1 == token.arefs[1]
                  t2 == token.arefs[2]
                  t3 == token.arefs[3]
              IN IF t2.symbol # "*" THEN FALSE
                 ELSE IF isNumber(t1) /\ isPublicVariable(t3)
                 THEN goalScan(refs, i + 1, Bump(counts, t3.symbol))
                 ELSE IF isNumber(t3) /\ isPublicVariable(t1)
                 THEN goalScan(refs, i + 1, Bump(counts, t1.symbol))
                 ELSE FALSE
    ELSE goalScan(refs, i + 1, Bump(counts, token.symbol))

isLinearExpressionGoal(refs) ==
  IF Len(refs) = 1 /\ isNumber(refs[1]) THEN TRUE
  ELSE goalScan(refs, 1, <<>>)

isGoal(refs) == isLinearExpressionGoal(refs)

(***************************************************************************)
(* Heuristic (remaining-cost estimate)                                     *)
(***************************************************************************)
TermsOf(refs) == SelectSeq(refs, LAMBDA r : r.role = "term")

\* grouping key of a term: 'number', `${symbol}^${power.value ?? 1}`, `other:${symbol}`
GroupKey(term) ==
  IF term.refType = "number" THEN "number"
  ELSE IF term.refType = "symbol" THEN term.symbol \o "^" \o ToString(PowerValue(term))
  ELSE "other:" \o term.symbol

GroupSize(terms, key) == Cardinality({i \in 1..Len(terms) : GroupKey(terms[i]) = key})

RECURSIVE SumOver(_, _)
SumOver(S, f) ==
  IF S = {} THEN 0
  ELSE LET x == CHOOSE y \in S : TRUE IN f[x] + SumOver(S \ {x}, f)

\* no grouping key of the model starts with 'expr:' (keys are 'number',
\* name^power or other:name), so the expression branch is never taken
GroupCombineCost(key) ==
  IF key = "number" THEN ADD_PER_DIGIT * Log10(MAX_EXPR_VALUE)
  ELSE VAR_COMBINE_COST

MulDivPowOps(refs) ==
  SelectSeq(refs, LAMBDA r : r.refType = "op" /\ r.symbol # "" /\ r.symbol \in {"*", "/", "^"})

\* the estimate once the terms are grouped: keys are all grouping keys,
\* big those of the groups with more than one term
GroupEstimate(terms, keys, big, operators) ==
  SumOver(big, [k \in big |-> (GroupSize(terms, k) - 1) * GroupCombineCost(k)])
    + (IF Cardinality(keys) > 1 THEN (Cardinality(keys) - 1) * VAR_BASE_COST ELSE 0)
    + (IF Len(operators) > 0
       THEN Len(operators) * MUL_SINGLE_DIGIT * Log10(MAX_EXPR_VALUE) ELSE 0)

GroupsOf(terms, keys) == {k \in keys : GroupSize(terms, k) > 1}

TermEstimate(refs, terms, keys) ==
  IF Len(terms) <= 1 THEN Len(SelectSeq(refs, LAMBDA r : r.refType # "op"))
  ELSE GroupEstimate(terms, keys, GroupsOf(terms, keys), MulDivPowOps(refs))

KeysOf(terms) == {GroupKey(terms[i]) : i \in 1..Len(terms)}

getApproxCost(refs) ==
  IF isLinearExpressionGoal(refs) THEN 0
  ELSE TermEstimate(refs, TermsOf(refs), KeysOf(TermsOf(refs)))

(***************************************************************************)
(* AModel                                                                  *)
(***************************************************************************)
NoParent == 0

NoDelayedOp == <<>>

\* new AModel(params): remainCost is computed from the refs alone.  The
\* fields given, localCost and yielded are ghost bookkeeping of the
\* verification: the Model whose expansion produced this one, the rewrite's
\* local cost, and whether a generator yielded it.
NewAModel(parent, transform, refs, totalApproxCost, delayedOp, given, localCost, yielded) ==
  [parent |-> parent, transform |-> transform, refs |-> refs,
   remainCost |-> getApproxCost(refs), totalApproxCost |-> totalApproxCost,
   delayedOp |-> delayedOp, given |-> given, localCost |-> localCost, yielded |-> yielded]

modelToKey(model) == Join(SymbolsOf(model.refs))

createInitialModel(tokens) == NewAModel(NoParent, "initial", tokens, 0, NoDelayedOp, 0, 0, FALSE)

\* createModel(parent, transform, tokens, cost): parentTotal is parent.totalApproxCost
createModel_dropParentCost(parentId, parentTotal, transform, tokens, cost, given) ==
  NewAModel(parentId, transform, tokens, cost, NoDelayedOp, given, cost, TRUE)

createModel(parentId, parentTotal, transform, tokens, cost, given) ==
  NewAModel(parentId, transform, tokens, parentTotal + cost, NoDelayedOp, given, cost, TRUE)

\* a reconstruction that returns the root alone
getModelPath_rootOnly(models, id) == IF id = NoParent THEN <<>> ELSE <<1>>

RECURSIVE getModelPath(_, _)
\* ids of the Models from the root to id
getModelPath(models, id) ==
  IF id = NoParent THEN <<>> ELSE Append(getModelPath(models, models[id].parent), id)

(***************************************************************************)
(* Binary min-heap (MinHeap of the driver, MergeHeap of the multiplexer).  *)
(* Entries are records with a field pri; positions are 1-based, so the     *)
(* parent of k is k \div 2 and its children are 2k and 2k+1.               *)
(***************************************************************************)
Swap(h, a, b) == [h EXCEPT ![a] = h[b], ![b] = h[a]]

RECURSIVE bubbleUp(_, _)
bubbleUp(h, index) ==
  IF index <= 1 THEN h
  ELSE LET parentIndex == index \div 2 IN
    IF h[index].pri - h[parentIndex].pri >= 0 THEN h
    ELSE bubbleUp(Swap(h, index, parentIndex), parentIndex)

RECURSIVE bubbleDown(_, _)
bubbleDown(h, index) ==
  LET length == Len(h)
      leftChild == 2 * index
      rightChild == 2 * index + 1
      s1 == IF leftChild <= length /\ h[leftChild].pri - h[index].pri < 0
            THEN leftChild ELSE index
      smallest == IF rightChild <= length /\ h[rightChild].pri - h[s1].pri < 0
                  THEN rightChild ELSE s1
  IN IF smallest = index THEN h ELSE bubbleDown(Swap(h, index, smallest), smallest)

heapPush(h, item) == bubbleUp(Append(h, item), Len(h) + 1)

\* pop() on a non-empty heap: the entry returned and the heap afterwards
heapPop(h) ==
  IF Len(h) = 1 THEN [item |-> h[1], heap |-> <<>>]
  ELSE [item |-> h[1],
        heap |-> bubbleDown([SubSeq(h, 1, Len(h) - 1) EXCEPT ![1] = h[Len(h)]], 1)]

(***************************************************************************)
(* applySum: scan for term pairs, then realize one pair per yield          *)
(***************************************************************************)
\* refB.sign ?? '+'
EffectiveOp(refB) == IF refB.sign = "" THEN "+" ELSE refB.sign

\* 0-based positions of the refs with role 'term'
TermIndices(refs) == {i \in 0..(Len(refs) - 1) : refs[i + 1].role = "term"}

PairAt(refs, i, j) ==
  [gen |-> "sum", iPos |-> i, jPos |-> j, kind |-> "",
   cost |-> calculateTermAddCost(refs[i + 1], refs[j + 1], EffectiveOp(refs[j + 1]))]

RECURSIVE PairsFrom(_, _, _)
\* the nested loops over i < j, in loop order, from the pair (i, j) on
PairsFrom(refs, i, j) ==
  IF i >= Len(refs) THEN <<>>
  ELSE IF j >= Len(refs) THEN PairsFrom(refs, i + 1, i + 2)
  ELSE IF i \in TermIndices(refs) /\ j \in TermIndices(refs)
          /\ canAddTerms(refs[i + 1], refs[j + 1])
       THEN <<PairAt(refs, i, j)>> \o PairsFrom(refs, i, j + 1)
       ELSE PairsFrom(refs, i, j + 1)

RECURSIVE SortByCost(_)
\* pairs.sort((a, b) => a.cost - b.cost): stable
SortByCost(pairs) ==
  IF Len(pairs) = 0 THEN <<>>
  ELSE LET m == CHOOSE c \in {pairs[k].cost : k \in 1..Len(pairs)} :
                  \A k \in 1..Len(pairs) : c <= pairs[k].cost
       IN SelectSeq(pairs, LAMBDA p : p.cost = m)
            \o SortByCost(SelectSeq(pairs, LAMBDA p : p.cost # m))

ScanCost(refs) == Cardinality(TermIndices(refs)) * ADD_SINGLE_DIGIT

\* the term pairs applySumScan yields pending Models for, in yield order
applySumScan(refs) ==
  IF Cardinality(TermIndices(refs)) < 2 THEN <<>>
  ELSE SortByCost(PairsFrom(refs, 0, 1))

\* the refs realizeSumPair builds around resultRef
SumNewRefs(refs, iPos, jPos, resultRef) ==
  LET opBeforeB == IF jPos > 0 /\ refs[jPos].refType = "op" THEN jPos - 1 ELSE -1
      startAfterA == iPos + 1
      endBeforeOpB == IF opBeforeB > 0 THEN opBeforeB ELSE jPos
  IN Slice(refs, 0, iPos) \o <<resultRef>>
       \o (IF endBeforeOpB > startAfterA THEN Slice(refs, startAfterA, endBeforeOpB) ELSE <<>>)
       \o Slice(refs, jPos + 1, Len(refs))

SumTransformName(refs, iPos, jPos) ==
  IF refs[iPos + 1].refType = "digit"
  THEN (IF EffectiveOp(refs[jPos + 1]) = "+" THEN "add" ELSE "sub")
         \o "_" \o ToString(iPos) \o "_" \o ToString(jPos)
  ELSE "combine_" \o ToString(iPos) \o "_" \o ToString(jPos)

\* the Model realizeSumPair returns once resultRef is made, and the cache afterwards
SumRealized(pendingId, pending, pair, made, given) ==
  [model |-> createModel(pendingId, pending.totalApproxCost,
                         SumTransformName(pending.refs, pair.iPos, pair.jPos),
                         SumNewRefs(pending.refs, pair.iPos, pair.jPos, made.ref),
                         pair.cost, given),
   cache |-> made.cache]

\* realizeSumPair(pendingModel, pair): resultRef is the composite of [refA, refB]
realizeSumPair(pendingId, pending, pair, cache, given) ==
  SumRealized(pendingId, pending, pair,
              createSymbolRef(cache, <<pending.refs[pair.iPos + 1], pending.refs[pair.jPos + 1]>>),
              given)

\* a scan that charges nothing
SumPendingModel_noScanCost(parentId, parent, pair) ==
  NewAModel(parentId,
            "sum_scan_" \o ToString(pair.iPos) \o "_" \o ToString(pair.jPos),
            parent.refs, parent.totalApproxCost, <<pair>>, parentId, 0, FALSE)

\* the pending Model applySumScan builds for one pair
SumPendingModel(parentId, parent, pair) ==
  NewAModel(parentId,
            "sum_scan_" \o ToString(pair.iPos) \o "_" \o ToString(pair.jPos),
            parent.refs, parent.totalApproxCost + ScanCost(parent.refs),
            <<pair>>, parentId, ScanCost(parent.refs), FALSE)

(***************************************************************************)
(* applyMul                                                                *)
(***************************************************************************)
MulItem(i, kind, cost) == [gen |-> "mul", iPos |-> i, jPos |-> 0, kind |-> kind, cost |-> cost]

\* the yields of one loop iteration at 0-based operator position i
MulItemsAt(tokens, i) ==
  LET left == tokens[i]
      right == tokens[i + 2]
  IN (IF isNumber(left) /\ isSymbol(right) THEN <<MulItem(i, "coeff_var", COEFF_VAR_MUL)>>
      ELSE IF isSymbol(left) /\ isNumber(right) THEN <<MulItem(i, "coeff_var", COEFF_VAR_MUL)>>
      ELSE <<>>)
     \o (IF isSymbol(left) /\ isSymbol(right)
            /\ left.symbol # "" /\ right.symbol # "" /\ left.symbol = right.symbol
         THEN <<MulItem(i, "same_var", SAME_VAR_MUL)>> ELSE <<>>)
     \o (IF isNumber(left) /\ isNumber(right)
         THEN <<MulItem(i, "numbers",
                        calculateMultiplicationCost(NumericValue(left), NumericValue(right)))>>
         ELSE <<>>)

RECURSIVE MulItemsFrom(_, _)
MulItemsFrom(tokens, i) ==
  IF i >= Len(tokens) - 1 THEN <<>>
  ELSE (IF tokenEquals(tokens[i + 1], "*") THEN MulItemsAt(tokens, i) ELSE <<>>)
         \o MulItemsFrom(tokens, i + 1)

\* the rewrites applyMul yields, in yield order
applyMul(tokens) == MulItemsFrom(tokens, 1)

splice(tokens, start, end, replacement) ==
  Slice(tokens, 0, start) \o replacement \o Slice(tokens, end, Len(tokens))

\* the Model one yield of applyMul returns once resultRef is made
MulRealized(parentId, parent, item, made) ==
  [model |-> createModel(parentId, parent.totalApproxCost,
                         "multiply_" \o item.kind \o "_" \o ToString(item.iPos),
                         splice(parent.refs, item.iPos - 1, item.iPos + 2, <<made.ref>>),
                         item.cost, parentId),
   cache |-> made.cache]

\* the children of the composite: [left, right] for two numbers, else [left, op, right]
MulSources(tokens, i, kind) ==
  IF kind = "numbers" THEN <<tokens[i], tokens[i + 2]>>
  ELSE <<tokens[i], tokens[i + 1], tokens[i + 2]>>

\* one yield of applyMul: the Model and the cache afterwards
realizeMul(parentId, parent, item, cache) ==
  MulRealized(parentId, parent, item,
              createSymbolRef(cache, MulSources(parent.refs, item.iPos, item.kind)))

(***************************************************************************)
(* applyCancel and applyCleanup on a ref array.  A null result is          *)
(* [ok |-> FALSE]; ref texts are the refs' symbols.                        *)
(***************************************************************************)
Null == [ok |-> FALSE, tokens |-> <<>>]

Some(tokens) == [ok |-> TRUE, tokens |-> tokens]

\* 0-based index
At(tokens, i) == tokens[i + 1]

isPartOfMultiplication(tokens, index) ==
  \/ index > 0 /\ tokenEquals(At(tokens, index - 1), "*")
  \/ index + 1 < Len(tokens) /\ tokenEquals(At(tokens, index + 1), "*")

\* the (i, j) the two nested loops stop at for a leading opA and a later opB
CancelHits(tokens, opA, opB) ==
  {ij \in (0..(Len(tokens) - 1)) \X (0..(Len(tokens) - 1)) :
     /\ tokenEquals(At(tokens, ij[1]), opA) /\ ij[1] + 1 < Len(tokens)
     /\ ~isPartOfMultiplication(tokens, ij[1] + 1)
     /\ ij[2] >= ij[1] + 2
     /\ tokenEquals(At(tokens, ij[2]), opB) /\ ij[2] + 1 < Len(tokens)
     /\ At(tokens, ij[2] + 1).symbol = At(tokens, ij[1] + 1).symbol
     /\ ~isPartOfMultiplication(tokens, ij[2] + 1)}

FirstHit(hits) ==
  CHOOSE ij \in hits : \A kl \in hits : ij[1] < kl[1] \/ (ij[1] = kl[1] /\ ij[2] <= kl[2])

CancelAt(tokens, ij) == splice(splice(tokens, ij[2], ij[2] + 2, <<>>), ij[1], ij[1] + 2, <<>>)

\* i of the first '- T' whose T equals the implicitly positive first term
FirstTermHits(tokens) ==
  {i \in 1..(Len(tokens) - 1) :
     /\ i + 1 < Len(tokens)
     /\ tokenEquals(At(tokens, i), "-")
     /\ At(tokens, i + 1).symbol = At(tokens, 0).symbol
     /\ ~isPartOfMultiplication(tokens, i + 1)}

Least(S) == CHOOSE k \in S : \A l \in S : k <= l

\* the three passes in order, given what each of them finds
CancelFirstOf(tokens, plusMinus, minusPlus, firstTerm) ==
  IF plusMinus # {} THEN Some(CancelAt(tokens, FirstHit(plusMinus)))
  ELSE IF minusPlus # {} THEN Some(CancelAt(tokens, FirstHit(minusPlus)))
  ELSE IF Len(tokens) >= 3 /\ ~tokenEquals(At(tokens, 0), "+") /\ ~tokenEquals(At(tokens, 0), "-")
          /\ ~isPartOfMultiplication(tokens, 0) /\ firstTerm # {}
  THEN Some(splice(splice(tokens, Least(firstTerm), Least(firstTerm) + 2, <<>>), 0, 1, <<>>))
  ELSE Null

applyCancelTokens(tokens) ==
  CancelFirstOf(tokens, CancelHits(tokens, "+", "-"), CancelHits(tokens, "-", "+"),
                FirstTermHits(tokens))

\* createAref('-' + text, [token]): a number ref named by the signed text, value unset
NegativeAref(token) == NewARef("number", NoValue, "-" \o token.symbol, <<token>>, "", "")

applyCleanupTokens(tokens) ==
  IF Len(tokens) = 0 THEN Null
  ELSE IF tokenEquals(At(tokens, 0), "+") THEN Some(splice(tokens, 0, 1, <<>>))
  ELSE IF tokenEquals(At(tokens, 0), "-") /\ Len(tokens) > 1
  THEN IF isNumber(At(tokens, 1))
       THEN Some(splice(tokens, 0, 2, <<NegativeAref(At(tokens, 1))>>))
       ELSE Some(tokens)
  ELSE Null

ArrayItem(gen) == [gen |-> gen, iPos |-> 0, jPos |-> 0, kind |-> "", cost |-> ARRAY_ACTION_COST]

\* generator form of an array rewrite: at most one successor, at unit cost
applyCancel(tokens) == IF applyCancelTokens(tokens).ok THEN <<ArrayItem("cancel")>> ELSE <<>>

applyCleanup(tokens) == IF applyCleanupTokens(tokens).ok THEN <<ArrayItem("cleanup")>> ELSE <<>>

realizeArray(parentId, parent, item, cache) ==
  [model |-> createModel(parentId, parent.totalApproxCost, item.gen,
                         IF item.gen = "cancel" THEN applyCancelTokens(parent.refs).tokens
                         ELSE applyCleanupTokens(parent.refs).tokens,
                         item.cost, parentId),
   cache |-> cache]

(***************************************************************************)
(* Multiplexer and one expansion of the driver                             *)
(***************************************************************************)
\* ALL_ACTIONS in order; div and parenthesis yield nothing on the inputs of
\* the model ('/', '(' and ')' never occur)
ALL_ACTIONS == <<"sum", "mul", "div", "cancel", "cleanup", "parenthesis">>

\* actionEntry.fn(model): the rewrites the generator will yield, unrealized
StartGenerators(refs) ==
  [sum |-> applySumScan(refs), mul |-> applyMul(refs), div |-> <<>>,
   cancel |-> applyCancel(refs), cleanup |-> applyCleanup(refs), parenthesis |-> <<>>]

\* what one resumption of a generator builds: the Models it creates, the
\* yielded one last, and the cache afterwards
SumYield(pending, realized) ==
  [models |-> <<pending, realized.model>>, cache |-> realized.cache]

\* an applySum that realizes the pair on the Model it was given
SumResume_onGivenModel(parentId, pending, pendingId, item, cache) ==
  SumYield(pending, realizeSumPair(parentId, pending, item, cache, parentId))

SumResume(parentId, pending, pendingId, item, cache) ==
  SumYield(pending, realizeSumPair(pendingId, pending, item, cache, parentId))

OneYield(realized) == [models |-> <<realized.model>>, cache |-> realized.cache]

Resume(g, parentId, parent, item, cache, nextId) ==
  IF g = "sum"
  THEN SumResume(parentId, SumPendingModel(parentId, parent, item), nextId, item, cache)
  ELSE IF g = "mul" THEN OneYield(realizeMul(parentId, parent, item, cache))
  ELSE OneYield(realizeArray(parentId, parent, item, cache))

\* a generator that writes the refs it built into the Model it was given
Yielded_inPlace(E, g, made) ==
  [done |-> FALSE, id |-> Len(E.models) + Len(made.models),
   E |-> [E EXCEPT !.gens = [E.gens EXCEPT ![g] = Tail(E.gens[g])],
                   !.cache = made.cache,
                   !.models = [k \in 1..Len(E.models) |->
                                 IF k = Last(made.models).given
                                 THEN [E.models[k] EXCEPT !.refs = Last(made.models).refs]
                                 ELSE E.models[k]] \o made.models]]

\* the expansion after a yield: generator g advanced, the Models appended
Yielded(E, g, made) ==
  [done |-> FALSE, id |-> Len(E.models) + Len(made.models),
   E |-> [E EXCEPT !.gens = [E.gens EXCEPT ![g] = Tail(E.gens[g])],
                   !.cache = made.cache,
                   !.models = E.models \o made.models]]

\* iterator.next() of generator g while expanding Model parentId.  E holds
\* cache, models, heap, mheap, gens and isEnd of the running expansion.
GenNext(E, g, parentId) ==
  IF Len(E.gens[g]) = 0 THEN [done |-> TRUE, id |-> 0, E |-> E]
  ELSE Yielded(E, g, Resume(g, parentId, E.models[parentId], Head(E.gens[g]),
                            E.cache, Len(E.models) + 1))

\* heap comparator of the driver: a.remainCost - b.remainCost
HeapEntry(models, id) == [id |-> id, pri |-> models[id].remainCost]

\* merge heap order of the multiplexer: model.totalApproxCost
MergeEntry(models, id, g) == [id |-> id, pri |-> models[id].totalApproxCost, gen |-> g]

\* if (!next.done) mergeHeap.push({action, model: next.value, iterator})
PushUnlessDone(nx, g) ==
  IF nx.done THEN nx.E
  ELSE [nx.E EXCEPT !.mheap = heapPush(nx.E.mheap, MergeEntry(nx.E.models, nx.id, g))]

RECURSIVE FirstOfEach(_, _, _)
\* the initialisation loop of getAllActions from the k-th action entry on
FirstOfEach(E, k, parentId) ==
  IF k > Len(ALL_ACTIONS) THEN E
  ELSE FirstOfEach(PushUnlessDone(GenNext(E, ALL_ACTIONS[k], parentId), ALL_ACTIONS[k]),
                   k + 1, parentId)

\* heap.push(model)
PushModel(E, id) == [E EXCEPT !.heap = heapPush(E.heap, HeapEntry(E.models, id))]

\* break out of for...of: the generator is closed
CloseGenerator(E, g) == [E EXCEPT !.gens = [E.gens EXCEPT ![g] = <<>>]]

RECURSIVE Further(_, _, _, _, _)
RECURSIVE FurtherOn(_, _, _, _, _)
\* the body of for (const furtherModel of next) on what next() returned
FurtherOn(nx, g, parentId, visited, prevRemainCost) ==
  IF nx.done THEN nx.E
  ELSE IF nx.E.models[nx.id].remainCost >= prevRemainCost THEN CloseGenerator(nx.E, g)
  ELSE IF modelToKey(nx.E.models[nx.id]) \notin visited
  THEN Further(PushModel(nx.E, nx.id), g, parentId, visited, nx.E.models[nx.id].remainCost)
  ELSE Further(nx.E, g, parentId, visited, prevRemainCost)

\* for (const furtherModel of next): stops, and closes the generator, at the
\* first Model whose remainCost does not improve on prevRemainCost
Further(E, g, parentId, visited, prevRemainCost) ==
  FurtherOn(GenNext(E, g, parentId), g, parentId, visited, prevRemainCost)

\* a loop body that clears isEnd on every yielded Model, visited or not
OnYield_anyYieldClearsIsEnd(E, entry, parentId, visited) ==
  IF modelToKey(E.models[entry.id]) \notin visited
  THEN Further([PushModel(E, entry.id) EXCEPT !.isEnd = FALSE], entry.gen, parentId, visited,
               E.models[entry.id].remainCost)
  ELSE [E EXCEPT !.isEnd = FALSE]

\* the driver's loop body for one yielded {action, model, next}
OnYield(E, entry, parentId, visited) ==
  IF modelToKey(E.models[entry.id]) \notin visited
  THEN Further([PushModel(E, entry.id) EXCEPT !.isEnd = FALSE], entry.gen, parentId, visited,
               E.models[entry.id].remainCost)
  ELSE E

RECURSIVE MergeLoop(_, _, _)
\* one round of the k-way merge: the popped entry is yielded to the driver,
\* then its generator is resumed and pushed back unless done
MergeRound(E, popped, parentId, visited) ==
  MergeLoop(PushUnlessDone(GenNext(OnYield([E EXCEPT !.mheap = popped.heap], popped.item,
                                           parentId, visited),
                                   popped.item.gen, parentId),
                           popped.item.gen),
            parentId, visited)

\* the k-way merge of getAllActions interleaved with the driver's loop body
MergeLoop(E, parentId, visited) ==
  IF Len(E.mheap) = 0 THEN E ELSE MergeRound(E, heapPop(E.mheap), parentId, visited)

\* for (const actionResult of getAllActions(model)) { ... } for the popped Model
Expand(cache0, models0, heap0, parentId, visited) ==
  MergeLoop(FirstOfEach([cache |-> cache0, models |-> models0, heap |-> heap0,
                         mheap |-> <<>>, gens |-> StartGenerators(models0[parentId].refs),
                         isEnd |-> TRUE], 1, parentId),
            parentId, visited)

\* executeDelayedOp(model): null without a delayed op, else its compute function
Executed(r) == [ok |-> TRUE, model |-> r.model, cache |-> r.cache]

executeDelayedOp(id, model, cache) ==
  IF model.delayedOp = NoDelayedOp THEN [ok |-> FALSE, model |-> model, cache |-> cache]
  ELSE Executed(realizeSumPair(id, model, model.delayedOp[1], cache, id))

(***************************************************************************)
(* Inputs: the ref sequence the parser hands to the driver.  Atoms are a   *)
(* number, the variable x, and the parenthesised sub-expressions (x*x) and *)
(* 3*(x*x) interned through the cache; every top-level non-operator is a   *)
(* term and carries the sign of the + or - before it.                      *)
(***************************************************************************)
Numbers == {3, 4}

Atoms == [k : {"num"}, n : Numbers] \cup [k : {"x", "xx", "u"}, n : {0}]

Ops == {"+", "-", "*"}

ChainAtoms == [k : {"num"}, n : {3}] \cup [k : {"x", "xx", "u"}, n : {0}]

ChainOps == {"-", "*"}

NumberAtom(n) == NewARef("number", <<n>>, ToString(n), <<>>, "", "")

VariableAtom(name) == NewARef("symbol", NoValue, name, <<>>, "", "")

XTimesX(cache) == createSymbolRef(cache, <<VariableAtom("x"), createOpRef("*"), VariableAtom("x")>>)

ThreeTimes(inner) ==
  createSymbolRef(inner.cache, <<NumberAtom(3), createOpRef("*"), inner.ref>>)

ParseAtom(cache, a) ==
  IF a.k = "num" THEN [ref |-> NumberAtom(a.n), cache |-> cache]
  ELSE IF a.k = "x" THEN [ref |-> VariableAtom("x"), cache |-> cache]
  ELSE IF a.k = "xx" THEN XTimesX(cache)
  ELSE ThreeTimes(XTimesX(cache))

AsTerm(ref, prevOp) ==
  [ref EXCEPT !.role = "term", !.sign = IF prevOp \in {"+", "-"} THEN prevOp ELSE ""]

\* the refs so far extended by the k-th atom got, after its operator
WithAtom(refs, ops, k, got) ==
  [refs |-> refs \o (IF k = 1 THEN <<>> ELSE <<createOpRef(ops[k - 1])>>)
                 \o <<AsTerm(got.ref, IF k = 1 THEN "+" ELSE ops[k - 1])>>,
   cache |-> got.cache]

RECURSIVE ParseFrom(_, _, _, _)
\* the refs of atoms[k..] joined by ops[k..] appended to those in acc, and
\* the cache afterwards
ParseFrom(atoms, ops, k, acc) ==
  IF k > Len(atoms) THEN acc
  ELSE ParseFrom(atoms, ops, k + 1, WithAtom(acc.refs, ops, k, ParseAtom(acc.cache, atoms[k])))

parseExpression(atoms, ops) == ParseFrom(atoms, ops, 1, [refs |-> <<>>, cache |-> EmptyCache])

(***************************************************************************)
(* The search driver as a state machine: one step per pop of the frontier  *)
(***************************************************************************)
\* stopRequested is the environment's request to stop the search; the
\* driver has no parameter or field through which it could read it
\* game holds the fields msgQueue and pending of the Game object, the call
\* stack of its single task, and the calls of sendMessage (sent) and of
\* onMessage (log) in the order they were made
VARIABLES heap, visited, endOfChain, cache, models, pc, result, lastPop, stopRequested, game

vars == <<heap, visited, endOfChain, cache, models, pc, result, lastPop, stopRequested, game>>

NoPop == [id |-> 0, frontier |-> {}]

\* the Game after construction: msgQueue = [], pending = false
NoGame == [msgQueue |-> <<>>, pending |-> FALSE, stack |-> <<>>, sent |-> <<>>, log |-> <<>>]

\* aStarSearch up to the first test of the outer loop
Start(parsed) ==
  /\ models = <<createInitialModel(parsed.refs)>>
  /\ cache = parsed.cache
  /\ heap = heapPush(<<>>, HeapEntry(models, 1))
  /\ visited = {}
  /\ endOfChain = <<>>
  /\ pc = "search"
  /\ result = [found |-> FALSE, path |-> <<>>]
  /\ lastPop = NoPop
  /\ stopRequested = FALSE
  /\ game = NoGame

Init ==
  \E n \in 1..MaxTerms :
    \E atoms \in [1..n -> Atoms], ops \in [1..(n - 1) -> Ops] :
      Start(parseExpression(atoms, ops))

InitChain ==
  \E n \in 1..MaxChain :
    \E atoms \in [1..n -> ChainAtoms], ops \in [1..(n - 1) -> ChainOps] :
      Start(parseExpression(atoms, ops))

HeapIds(h) == {h[k].id : k \in 1..Len(h)}

PoppedId == heapPop(heap).item.id

\* a driver that never records a state key
MarkVisited_forget(seen, key) == seen

\* visited.add(stateKey)
MarkVisited(seen, key) == seen \cup {key}

\* the driver's state after the expansion E of Model id
Expanded(E, id) ==
  /\ heap' = E.heap
  /\ cache' = E.cache
  /\ models' = E.models
  /\ endOfChain' = IF E.isEnd THEN Append(endOfChain, id) ELSE endOfChain

\* a driver that expands a popped Model whose key is already visited
PopVisited_expandAgain ==
  /\ pc = "search" /\ Len(heap) > 0
  /\ Len(models) < MaxModels
  /\ modelToKey(models[PoppedId]) \in visited
  /\ Expanded(Expand(cache, models, heapPop(heap).heap, PoppedId, visited), PoppedId)
  /\ lastPop' = [id |-> PoppedId, frontier |-> HeapIds(heap)]
  /\ UNCHANGED <<visited, pc, result, stopRequested, game>>

\* the popped Model's key is already visited: continue
PopVisited ==
  /\ pc = "search" /\ Len(heap) > 0
  /\ modelToKey(models[PoppedId]) \in visited
  /\ heap' = heapPop(heap).heap
  /\ lastPop' = [id |-> PoppedId, frontier |-> HeapIds(heap)]
  /\ UNCHANGED <<visited, endOfChain, cache, models, pc, result, stopRequested, game>>

\* the popped Model is a goal: return getModelPath(model)
PopGoal ==
  /\ pc = "search" /\ Len(heap) > 0
  /\ modelToKey(models[PoppedId]) \notin visited
  /\ isGoal(models[PoppedId].refs)
  /\ heap' = heapPop(heap).heap
  /\ visited' = MarkVisited(visited, modelToKey(models[PoppedId]))
  /\ result' = [found |-> TRUE, path |-> getModelPath(models, PoppedId)]
  /\ pc' = "done"
  /\ lastPop' = [id |-> PoppedId, frontier |-> HeapIds(heap)]
  /\ UNCHANGED <<endOfChain, cache, models, stopRequested, game>>

\* the popped Model is expanded through getAllActions
PopExpand ==
  /\ pc = "search" /\ Len(heap) > 0
  /\ Len(models) < MaxModels
  /\ modelToKey(models[PoppedId]) \notin visited
  /\ ~isGoal(models[PoppedId].refs)
  /\ visited' = MarkVisited(visited, modelToKey(models[PoppedId]))
  /\ Expanded(Expand(cache, models, heapPop(heap).heap, PoppedId,
                     MarkVisited(visited, modelToKey(models[PoppedId]))), PoppedId)
  /\ lastPop' = [id |-> PoppedId, frontier |-> HeapIds(heap)]
  /\ UNCHANGED <<pc, result, stopRequested, game>>

\* the body of the loop over endOfChain for what executeDelayedOp returned
AfterExecute(D, ex) ==
  IF ~ex.ok THEN D
  ELSE [cache |-> ex.cache, models |-> Append(D.models, ex.model),
        heap |-> IF modelToKey(ex.model) \notin visited
                 THEN heapPush(D.heap, [id |-> Len(D.models) + 1, pri |-> ex.model.remainCost])
                 ELSE D.heap]

RECURSIVE DeferredFrom(_, _)
\* the loop over endOfChain from its k-th Model on; D holds cache, models, heap
DeferredFrom(D, k) ==
  IF k > Len(endOfChain) THEN D
  ELSE DeferredFrom(AfterExecute(D, executeDelayedOp(endOfChain[k], D.models[endOfChain[k]],
                                                     D.cache)), k + 1)

\* the driver's state after the deferred phase D
Deferred(D) ==
  /\ cache' = D.cache
  /\ models' = D.models
  /\ heap' = D.heap
  /\ pc' = IF Len(D.heap) = 0 THEN "done" ELSE "search"

\* the frontier is empty: run the deferred operations of the end-of-chain
\* Models, then test the outer loop again and return null if it is still empty
DeferredPhase ==
  /\ pc = "search" /\ Len(heap) = 0
  /\ Deferred(DeferredFrom([cache |-> cache, models |-> models, heap |-> heap], 1))
  /\ endOfChain' = <<>>
  /\ UNCHANGED <<visited, result, lastPop, stopRequested, game>>

Next == PopVisited \/ PopGoal \/ PopExpand \/ DeferredPhase

Spec == Init /\ [][Next]_vars

\* ENABLED <<Next>>_vars written out: the loop runs, and the popped Model can
\* be handled (the table of Models has room for an expansion)
NextEnabled ==
  /\ pc = "search"
  /\ Len(heap) > 0 =>
       \/ modelToKey(models[PoppedId]) \in visited
       \/ isGoal(models[PoppedId].refs)
       \/ Len(models) < MaxModels

\* weak fairness of Next, WF_vars(Next), over NextEnabled: the single task
\* that runs the search keeps running until the function returns
FairSpec == Init /\ [][Next]_vars /\ ([]<>~NextEnabled \/ []<><<Next>>_vars)

SpecChain == InitChain /\ [][Next]_vars

\* inputs with the number 1, whose products cost less than those of 3
AtomsWithOne == [k : {"num"}, n : {1, 3}] \cup [k : {"x", "xx"}, n : {0}]

InitWithOne ==
  \E n \in 1..MaxTerms :
    \E atoms \in [1..n -> AtomsWithOne], ops \in [1..(n - 1) -> Ops] :
      Start(parseExpression(atoms, ops))

SpecWithOne == InitWithOne /\ [][Next]_vars

\* the caller asks for the search to stop while it is running
RequestStop ==
  /\ pc = "search" /\ ~stopRequested
  /\ stopRequested' = TRUE
  /\ UNCHANGED <<heap, visited, endOfChain, cache, models, pc, result, lastPop, game>>

NextStop == PopVisited \/ PopGoal \/ PopExpand \/ DeferredPhase \/ RequestStop

SpecStop == Init /\ [][NextStop]_vars

\* the popped Model is expanded and the first next() of a generator throws:
\* neither getAllActions nor the loop over it has a handler, so the exception
\* leaves aStarSearch with nothing pushed
ExpandThrows ==
  /\ pc = "search" /\ Len(heap) > 0
  /\ modelToKey(models[PoppedId]) \notin visited
  /\ ~isGoal(models[PoppedId].refs)
  /\ visited' = MarkVisited(visited, modelToKey(models[PoppedId]))
  /\ heap' = heapPop(heap).heap
  /\ pc' = "failed"
  /\ lastPop' = [id |-> PoppedId, frontier |-> HeapIds(heap)]
  /\ UNCHANGED <<endOfChain, cache, models, result, stopRequested, game>>

NextThrow == PopVisited \/ PopGoal \/ PopExpand \/ DeferredPhase \/ ExpandThrows

SpecThrow == Init /\ [][NextThrow]_vars

(***************************************************************************)
(* applyCancel on its own: one call on a ref array of up to MaxCancelTerms *)
(* variables joined by +, - and *, with or without a leading minus          *)
(***************************************************************************)
CancelNames == {"x", "y", "z"}

\* the ref array of names joined by ops after the leading operator lead ("" for none)
CancelInput(lead, names, ops) ==
  (IF lead = "" THEN <<>> ELSE <<createOpRef(lead)>>)
    \o <<AsTerm(VariableAtom(names[1]), IF lead = "" THEN "+" ELSE lead)>>
    \o [k \in 1..(2 * (Len(names) - 1)) |->
          IF k % 2 = 1 THEN createOpRef(ops[(k + 1) \div 2])
          ELSE AsTerm(VariableAtom(names[(k \div 2) + 1]), ops[k \div 2])]

InitCancel ==
  \E n \in 1..MaxCancelTerms :
    \E names \in [1..n -> CancelNames], ops \in [1..(n - 1) -> Ops], lead \in {"", "-"} :
      /\ models = <<createInitialModel(CancelInput(lead, names, ops))>>
      /\ cache = EmptyCache
      /\ heap = <<>>
      /\ visited = {}
      /\ endOfChain = <<>>
      /\ pc = "cancel"
      /\ result = [found |-> FALSE, path |-> <<>>]
      /\ lastPop = NoPop
      /\ stopRequested = FALSE
      /\ game = NoGame

\* applyCancel(tokens) returns the array without the pair it found
CancelFound ==
  /\ pc = "cancel"
  /\ applyCancelTokens(models[1].refs).ok
  /\ models' = Append(models, realizeArray(1, models[1], ArrayItem("cancel"), cache).model)
  /\ pc' = "cancelled"
  /\ UNCHANGED <<heap, visited, endOfChain, cache, result, lastPop, stopRequested, game>>

\* applyCancel(tokens) returns null
CancelNull ==
  /\ pc = "cancel"
  /\ ~applyCancelTokens(models[1].refs).ok
  /\ pc' = "cancelled"
  /\ UNCHANGED <<heap, visited, endOfChain, cache, models, result, lastPop, stopRequested, game>>

NextCancel == CancelFound \/ CancelNull

SpecCancel == InitCancel /\ [][NextCancel]_vars

(***************************************************************************)
(* The driver's MinHeap taken alone: Models are pushed and popped in any    *)
(* order.  A Model's id is its position in the table of Models, so ids     *)
(* grow in push order.                                                     *)
(***************************************************************************)
\* one-term inputs of remainCost 0, 0 and 1
HeapAtoms == {[k |-> "num", n |-> 3], [k |-> "x", n |-> 0], [k |-> "xx", n |-> 0]}

\* new MinHeap<AModel>((a, b) => a.remainCost - b.remainCost)
InitHeap ==
  /\ models = <<>>
  /\ cache = EmptyCache
  /\ heap = <<>>
  /\ visited = {}
  /\ endOfChain = <<>>
  /\ pc = "heap"
  /\ result = [found |-> FALSE, path |-> <<>>]
  /\ lastPop = NoPop
  /\ stopRequested = FALSE
  /\ game = NoGame

\* the table and the heap after heap.push(createInitialModel(parsed.refs))
Pushed(parsed) ==
  /\ models' = Append(models, createInitialModel(parsed.refs))
  /\ cache' = parsed.cache
  /\ heap' = heapPush(heap, [id |-> Len(models) + 1, pri |-> getApproxCost(parsed.refs)])

\* heap.push(model) of a new Model
push ==
  /\ pc = "heap" /\ Len(models) < MaxPushes
  /\ \E a \in HeapAtoms : Pushed(ParseFrom(<<a>>, <<>>, 1, [refs |-> <<>>, cache |-> cache]))
  /\ UNCHANGED <<visited, endOfChain, pc, result, lastPop, stopRequested, game>>

\* heap.pop() on a non-empty heap
pop ==
  /\ pc = "heap" /\ Len(heap) > 0
  /\ heap' = heapPop(heap).heap
  /\ lastPop' = [id |-> PoppedId, frontier |-> HeapIds(heap)]
  /\ UNCHANGED <<visited, endOfChain, cache, models, pc, result, stopRequested, game>>

NextHeap == push \/ pop

SpecHeap == InitHeap /\ [][NextHeap]_vars

(***************************************************************************)
(* Game.sendMessage and Game.deliverMessage.  Messages are numbered in the  *)
(* order of the calls of sendMessage.  The call stack holds a loop frame    *)
(* for a sendMessage that runs its while loop, a deliver frame for a       *)
(* deliverMessage about to call the handler of actor h, and a handler      *)
(* frame for an onMessage that is running.                                 *)
(***************************************************************************)
\* the actors deliverMessage calls, in order: the dealer, then model.players
Actors == <<"BotDealer", "InteractivePlayer", "BotPlayer">>

LoopFrame == [k |-> "loop", msg |-> 0, h |-> 0]

DeliverFrame(msg, h) == [k |-> "deliver", msg |-> msg, h |-> h]

HandlerFrame(msg, h) == [k |-> "handler", msg |-> msg, h |-> h]

Top(stack) == stack[Len(stack)]

Return(stack) == SubSeq(stack, 1, Len(stack) - 1)

\* a sendMessage that runs its loop whether or not a delivery is pending
sendMessage_noPendingTest(g, msg, nested) ==
  [g EXCEPT !.msgQueue = Append(g.msgQueue, msg),
            !.sent = Append(g.sent, [id |-> msg, nested |-> nested]),
            !.pending = TRUE,
            !.stack = Append(g.stack, LoopFrame)]

\* sendMessage(msg) up to the first test of its while loop, or to its return
\* when a delivery is pending; nested records that a handler made the call
sendMessage(g, msg, nested) ==
  [g EXCEPT !.msgQueue = Append(g.msgQueue, msg),
            !.sent = Append(g.sent, [id |-> msg, nested |-> nested]),
            !.pending = TRUE,
            !.stack = IF g.pending THEN g.stack ELSE Append(g.stack, LoopFrame)]

searchVars == <<heap, visited, endOfChain, cache, models, pc, result, lastPop, stopRequested>>

InitGame ==
  /\ models = <<>>
  /\ cache = EmptyCache
  /\ heap = <<>>
  /\ visited = {}
  /\ endOfChain = <<>>
  /\ pc = "game"
  /\ result = [found |-> FALSE, path |-> <<>>]
  /\ lastPop = NoPop
  /\ stopRequested = FALSE
  /\ game = NoGame

\* game.sendMessage(msg) called while no call of the Game is running
Send ==
  /\ pc = "game" /\ game.stack = <<>> /\ Len(game.sent) < MaxMessages
  /\ game' = sendMessage(game, Len(game.sent) + 1, FALSE)
  /\ UNCHANGED searchVars

\* this.game.sendMessage(msg) called by a running onMessage
SendInHandler ==
  /\ pc = "game" /\ Len(game.stack) > 0 /\ Top(game.stack).k = "handler"
  /\ Len(game.sent) < MaxMessages
  /\ game' = sendMessage(game, Len(game.sent) + 1, TRUE)
  /\ UNCHANGED searchVars

\* while (msgQueue.length > 0) deliverMessage(msgQueue.shift())
Shift ==
  /\ pc = "game" /\ Len(game.stack) > 0 /\ Top(game.stack).k = "loop"
  /\ Len(game.msgQueue) > 0
  /\ game' = [game EXCEPT !.msgQueue = Tail(game.msgQueue),
                          !.stack = Append(game.stack, DeliverFrame(Head(game.msgQueue), 1))]
  /\ UNCHANGED searchVars

\* deliverMessage calls onMessage(msg) of the next actor
CallHandler ==
  /\ pc = "game" /\ Len(game.stack) > 0 /\ Top(game.stack).k = "deliver"
  /\ Top(game.stack).h <= Len(Actors)
  /\ game' = [game EXCEPT !.log = Append(game.log, <<Top(game.stack).msg, Top(game.stack).h>>),
                          !.stack = Append(game.stack, HandlerFrame(Top(game.stack).msg,
                                                                    Top(game.stack).h))]
  /\ UNCHANGED searchVars

\* onMessage returns to deliverMessage, which goes on to the next actor
HandlerReturns ==
  /\ pc = "game" /\ Len(game.stack) > 0 /\ Top(game.stack).k = "handler"
  /\ game' = [game EXCEPT !.stack = [Return(game.stack) EXCEPT ![Len(game.stack) - 1].h = @ + 1]]
  /\ UNCHANGED searchVars

\* deliverMessage has called every actor and returns to the while loop
DeliverReturns ==
  /\ pc = "game" /\ Len(game.stack) > 0 /\ Top(game.stack).k = "deliver"
  /\ Top(game.stack).h > Len(Actors)
  /\ game' = [game EXCEPT !.stack = Return(game.stack)]
  /\ UNCHANGED searchVars

\* the queue is empty: pending = false and sendMessage returns
LoopExit ==
  /\ pc = "game" /\ Len(game.stack) > 0 /\ Top(game.stack).k = "loop"
  /\ Len(game.msgQueue) = 0
  /\ game' = [game EXCEPT !.pending = FALSE, !.stack = Return(game.stack)]
  /\ UNCHANGED searchVars

NextGame ==
  Send \/ SendInHandler \/ Shift \/ CallHandler \/ HandlerReturns \/ DeliverReturns \/ LoopExit

SpecGame == InitGame /\ [][NextGame]_vars

(***************************************************************************)
(* The full rewrite graph: every successor every generator can yield,      *)
(* whatever the driver keeps of them                                       *)
(***************************************************************************)
AllRewrites(refs) ==
  applySumScan(refs) \o applyMul(refs) \o applyCancel(refs) \o applyCleanup(refs)

\* the Model item yields from refs at accumulated cost 0, and the cache afterwards
RewriteOf(refs, cch, item) ==
  LET made == Resume(item.gen, 1, [refs |-> refs, totalApproxCost |-> 0], item, cch, 2)
  IN [model |-> Last(made.models), cache |-> made.cache]

Unreachable == 100 * MAX_EXPR_VALUE

MinOf(S) == CHOOSE m \in S : \A n \in S : m <= n

RECURSIVE MinCostToGoal(_, _, _)
\* least accumulated cost of a rewrite sequence from refs to a goal form, or
\* Unreachable; every rewrite that changes refs shortens them, so fuel
\* Len(refs) + 1 explores every sequence
MinCostToGoal(refs, cch, fuel) ==
  IF isGoal(refs) THEN 0
  ELSE IF fuel = 0 THEN Unreachable
  ELSE LET items == AllRewrites(refs)
           via == {LET r == RewriteOf(refs, cch, items[k])
                       rest == IF r.model.refs = refs THEN Unreachable
                               ELSE MinCostToGoal(r.model.refs, r.cache, fuel - 1)
                   IN IF rest >= Unreachable THEN Unreachable
                      ELSE r.model.totalApproxCost + rest : k \in 1..Len(items)}
       IN MinOf(via \cup {Unreachable})

TrueRemainingCost(refs) == MinCostToGoal(refs, cache, Len(refs) + 1)

GoalReachable(refs) == TrueRemainingCost(refs) < Unreachable

StartModel == models[1]

Done == pc = "done"

(***************************************************************************)
(* Claims                                                                  *)
(***************************************************************************)
\* C1: whenever the search returns a path, the refs of the path's last
\* Model satisfy the goal recognizer.
C1_ReturnedPathEndsInGoal ==
  (Done /\ result.found) =>
    (Len(result.path) > 0 /\ isGoal(models[Last(result.path)].refs))

\* a path of more than one Model was returned: the goal was found by rewriting
C1_Witness == Done /\ result.found /\ Len(result.path) > 1

\* C2: for every initial Model from which a goal form is reachable through
\* the generators, the search returns a path (it never ends with null).
C2_ReachableGoalIsFound ==
  (Done /\ GoalReachable(StartModel.refs)) => result.found

\* C3: the search terminates on every input: after finitely many pops and
\* deferred phases it has returned a path or null.
C3_SearchTerminates == <>Done

\* the search returned null after several pops and a deferred phase
C3_Witness == Done /\ ~result.found /\ Cardinality(visited) > 1

FScore(m) == m.totalApproxCost + m.remainCost

\* C4: every pop returns a frontier Model whose totalApproxCost + heuristic
\* is minimal among the Models of the frontier.
C4_PopIsMinimalFScore ==
  lastPop.id # 0 =>
    \A j \in lastPop.frontier : FScore(models[lastPop.id]) <= FScore(models[j])

\* C5: the heuristic of every Model the search built never exceeds the least
\* cost of a rewrite sequence from that Model's refs to a goal form.
C5_HeuristicAdmissible ==
  \A i \in 1..Len(models) : models[i].remainCost <= TrueRemainingCost(models[i].refs)

(***************************************************************************)
(* The goal form as the specification words it                             *)
(***************************************************************************)
IsTermRef(r) == ~isOp(r)

IsNamedVariable(r) == isSymbol(r) /\ isPublicVariable(r) /\ Len(r.arefs) = 0

\* a composite c * v of a number and a named variable, in either order
IsCoeffTimesVar(r) ==
  /\ isSymbol(r) /\ Len(r.arefs) = 3 /\ r.arefs[2].symbol = "*"
  /\ \/ isNumber(r.arefs[1]) /\ IsNamedVariable(r.arefs[3])
     \/ isNumber(r.arefs[3]) /\ IsNamedVariable(r.arefs[1])

VariableOf(r) ==
  IF IsNamedVariable(r) THEN r.symbol
  ELSE IF isNumber(r.arefs[1]) THEN r.arefs[3].symbol ELSE r.arefs[1].symbol

\* how many terms of refs are the variable v or a composite c * v
Occurrences(refs, v) ==
  Cardinality({i \in 1..Len(refs) :
                 (IsNamedVariable(refs[i]) \/ IsCoeffTimesVar(refs[i])) /\ VariableOf(refs[i]) = v})

NumberTerms(refs) == Cardinality({i \in 1..Len(refs) : isNumber(refs[i])})

GoalForm(refs) ==
  \/ Len(refs) = 1 /\ isNumber(refs[1])
  \/ \A i \in 1..Len(refs) : IsTermRef(refs[i]) =>
       \/ isNumber(refs[i]) /\ NumberTerms(refs) <= 1
       \/ IsNamedVariable(refs[i]) /\ Occurrences(refs, refs[i].symbol) <= 1
       \/ IsCoeffTimesVar(refs[i]) /\ Occurrences(refs, VariableOf(refs[i])) <= 1

\* C6: the goal recognizer returns true for a ref sequence exactly when the
\* sequence is one number, or each of its terms is the only number, a named
\* variable occurring at most once, or a composite c * v whose variable
\* occurs at most once.
C6_GoalIffGoalForm ==
  \A i \in 1..Len(models) : isGoal(models[i].refs) <=> GoalForm(models[i].refs)

\* C7: along every parent/child pair of Models, and so along every solution
\* path, totalApproxCost strictly increases, unless the rewrite's cost is the
\* cancel reward, and then it decreases by at most 5.
C7_CostGrowsAlongPath ==
  \A i \in 1..Len(models) :
    models[i].parent # NoParent =>
      IF models[i].localCost = VAR_CANCEL_REWARD
      THEN models[i].totalApproxCost >= models[models[i].parent].totalApproxCost - 5
      ELSE models[i].totalApproxCost > models[models[i].parent].totalApproxCost

\* a solution path of two rewrites was returned
C7_Witness == Done /\ result.found /\ Len(result.path) > 2

\* the Model was yielded by applySum: its parent is a pending sum_scan Model
YieldedBySum(m) == m.yielded /\ models[m.parent].delayedOp # NoDelayedOp

\* C8 as stated: every Model a generator yields for a given Model has the
\* given Model's totalApproxCost plus the local cost of the rewrite.
C8_YieldedCostIsLocalCost ==
  \A i \in 1..Len(models) :
    models[i].yielded =>
      models[i].totalApproxCost = models[models[i].given].totalApproxCost + models[i].localCost

\* C8 amended: a Model applySum yields has, on top of the given Model's
\* totalApproxCost and the pair's cost, the scan cost of one ADD_SINGLE_DIGIT
\* per term of the given Model; every other yielded Model has the given
\* Model's totalApproxCost plus the local cost of the rewrite.
C8_YieldedCostWithScan ==
  \A i \in 1..Len(models) :
    models[i].yielded =>
      models[i].totalApproxCost =
        models[models[i].given].totalApproxCost + models[i].localCost
          + (IF YieldedBySum(models[i]) THEN ScanCost(models[models[i].given].refs) ELSE 0)

\* both a sum and another generator have yielded
C8_Witness ==
  /\ \E i \in 1..Len(models) : YieldedBySum(models[i])
  /\ \E i \in 1..Len(models) : models[i].yielded /\ ~YieldedBySum(models[i])

RECURSIVE CompositesIn(_)
\* the refs built through the cache in refs and below them
CompositesIn(refs) ==
  UNION {(IF isSymbol(refs[i]) /\ Len(refs[i].arefs) > 0 THEN {refs[i]} ELSE {})
           \cup CompositesIn(refs[i].arefs) : i \in 1..Len(refs)}

\* every composite of every Model built so far: the record of the requests
\* the cache has served, at parse time and during the search
Interned == UNION {CompositesIn(models[i].refs) : i \in 1..Len(models)}

KeyOf(r) == Join(SymbolsOf(r.arefs))

\* C10: any two composites whose children join to the same key carry the
\* same name, whenever they were requested, and that name is the one the
\* cache holds for the key.
C10_InterningStable ==
  \A r \in Interned :
    /\ KeyOf(r) \in CacheKeys(cache) /\ CacheGet(cache, KeyOf(r)) = r.symbol
    /\ \A q \in Interned : KeyOf(q) = KeyOf(r) => q.symbol = r.symbol

\* a rewrite of the search requested a key the parser had requested before,
\* with other names requested in between
C10_Witness ==
  \E r \in CompositesIn(models[1].refs) :
    \E i \in 2..Len(models) : \E q \in CompositesIn(models[i].refs) :
      /\ KeyOf(q) = KeyOf(r) /\ q.arefs # r.arefs /\ q.symbol = r.symbol
      /\ \E k \in 1..(Cardinality({c.symbol : c \in CompositesIn(models[1].refs)}) - 1) :
           cache.map[k][2] = r.symbol

RECURSIVE BareRefs(_)
\* a child sequence without the positional annotations role and sign the
\* parser puts on top-level terms: type, value, name and children of each child
BareRefs(arefs) ==
  [i \in 1..Len(arefs) |->
     [refType |-> arefs[i].refType, value |-> arefs[i].value,
      symbol |-> arefs[i].symbol, arefs |-> BareRefs(arefs[i].arefs)]]

Operands(r) == {r.arefs[k] : k \in {j \in 1..Len(r.arefs) : ~isOp(r.arefs[j])}}

RECURSIVE NumberRefsIn(_)
\* the number refs in refs and below them
NumberRefsIn(refs) ==
  UNION {(IF isNumber(refs[i]) THEN {refs[i]} ELSE {}) \cup NumberRefsIn(refs[i].arefs) :
           i \in 1..Len(refs)}

\* C14: every number ref of every Model has a value, and its symbol, the
\* fragment it contributes to the state key, is the decimal numeral of
\* that value.
C14_NumberSymbolIsDecimal ==
  \A i \in 1..Len(models) : \A r \in NumberRefsIn(models[i].refs) :
    r.value # NoValue /\ r.symbol = ToString(r.value[1])

\* C15: once a stop has been requested, the driver's next step is its
\* return: it ends the search without a path and expands no further Model.
C15_StopEndsSearch ==
  [][stopRequested => (pc' = "done" /\ ~result'.found /\ models' = models)]_vars

\* C16: a generator that throws during an expansion does not make the
\* search fail: the search is still running, or has returned a path or null.
C16_ThrowIsLocalSkip == pc \in {"search", "done"}

\* 0-based positions of the top-level terms named T
TermPositions(tokens, T) ==
  {i \in 0..(Len(tokens) - 1) : ~isOp(At(tokens, i)) /\ At(tokens, i).symbol = T}

\* the operator a term stands under: the one before it, + for a first term
OpBefore(tokens, i) == IF i = 0 THEN "+" ELSE At(tokens, i - 1).symbol

\* T occurs as exactly two top-level terms, one added and one subtracted, and
\* neither is next to a multiplication
OnceAddedOnceSubtracted(tokens, T) ==
  /\ Cardinality(TermPositions(tokens, T)) = 2
  /\ \A i \in TermPositions(tokens, T) : ~isPartOfMultiplication(tokens, i)
  /\ {OpBefore(tokens, i) : i \in TermPositions(tokens, T)} = {"+", "-"}

Opposite(op) == IF op = "+" THEN "-" ELSE "+"

\* tokens with the operators of the two occurrences of T exchanged; a first
\* term without an operator gets its minus written in front
Mirror(tokens, T) ==
  LET flipped == [k \in 1..Len(tokens) |->
                    IF k < Len(tokens) /\ k \in TermPositions(tokens, T)
                    THEN createOpRef(Opposite(tokens[k].symbol)) ELSE tokens[k]]
  IN IF 0 \in TermPositions(tokens, T) THEN <<createOpRef("-")>> \o flipped ELSE flipped

\* applyCancel removed the pair of T: it returned an array without T
RemovesPairOf(tokens, T) ==
  /\ applyCancelTokens(tokens).ok
  /\ TermPositions(applyCancelTokens(tokens).tokens, T) = {}

\* C17: for a term T that occurs once added and once subtracted in a ref
\* array, neither occurrence next to a multiplication, applyCancel removes
\* the pair of T from the array exactly if it removes it from the array with
\* the two occurrences exchanged.
C17_CancelSymmetric ==
  \A T \in CancelNames :
    OnceAddedOnceSubtracted(models[1].refs, T) =>
      (RemovesPairOf(models[1].refs, T) <=> RemovesPairOf(Mirror(models[1].refs, T), T))

\* C18: when the search on the input x + x has returned, it has returned a
\* path, and the symbols of the top-level refs of the path's last Model are
\* 2, *, x.
C18_XPlusXGivesTwoX ==
  (Done /\ SymbolsOf(StartModel.refs) = <<"x", "+", "x">>) =>
    (result.found /\ Len(result.path) > 0
       /\ SymbolsOf(models[Last(result.path)].refs) = <<"2", "*", "x">>)

\* the Models made by a generator that was given Model i
ChildrenOf(i) == {k \in 1..Len(models) : models[k].given = i}

\* C19: visited never loses a key, and every pop of the driver either finds
\* the popped Model's key in visited, and then changes nothing but the
\* frontier (no goal test ends the search, no Model is made, no key added),
\* or adds the key to visited in the same step that tests and expands the
\* Model; so no key is tested or expanded twice.
C19_KeyExpandedAtMostOnce ==
  [][/\ visited \subseteq visited'
     /\ (pc = "search" /\ Len(heap) > 0) =>
          IF modelToKey(models[PoppedId]) \in visited
          THEN /\ visited' = visited /\ models' = models /\ cache' = cache
               /\ pc' = pc /\ result' = result /\ endOfChain' = endOfChain
          ELSE /\ modelToKey(models[PoppedId]) \in visited'
               /\ Cardinality(visited') = Cardinality(visited) + 1]_vars

\* the last pop took a Model whose key another Model, popped before it, had
\* brought into visited, and skipped it: the search goes on, and the popped
\* Model has neither successors nor a place among the end-of-chain Models
C19_Witness ==
  /\ pc = "search" /\ lastPop.id # 0
  /\ ChildrenOf(lastPop.id) = {}
  /\ \A k \in 1..Len(endOfChain) : endOfChain[k] # lastPop.id
  /\ \E i \in 1..Len(models) :
       /\ i # lastPop.id /\ i \notin lastPop.frontier
       /\ modelToKey(models[i]) = modelToKey(models[lastPop.id])

\* values the variable x is given
Assignments == {-2, 0, 3}

Apply(op, a, b) == IF op = "+" THEN a + b ELSE IF op = "-" THEN a - b ELSE a * b

\* a value standing for a composite of two children, whose operation its
\* children do not tell: the same for the same name
OpaqueValue(sym) == 97 + 13 * (CHOOSE k \in 1..(MaxSym + 8) : InternalName(k) = sym)

RECURSIVE Denote(_, _)
\* the integer a ref that is not an operator denotes when x is xv
Denote(r, xv) ==
  IF isNumber(r) THEN NumericValue(r)
  ELSE IF Len(r.arefs) = 0 THEN xv
  ELSE IF Len(r.arefs) = 3 /\ isOp(r.arefs[2])
  THEN Apply(r.arefs[2].symbol, Denote(r.arefs[1], xv), Denote(r.arefs[3], xv))
  ELSE OpaqueValue(r.symbol)

\* the values of the refs, with value v for the ref at index at (0 for none)
ValuesOf(refs, xv, at, v) ==
  [k \in 1..Len(refs) |->
     IF k = at THEN v ELSE IF isOp(refs[k]) THEN 0 ELSE Denote(refs[k], xv)]

RECURSIVE EvalFrom(_, _, _, _, _, _)
\* the value of refs[k..] after the sum total of the finished products, the
\* running product prod and the operator pending before refs[k]; * binds
\* tighter than + and -, and a leading + or - signs the first term
EvalFrom(refs, vals, k, total, prod, pending) ==
  IF k > Len(refs) THEN total + prod
  ELSE IF isOp(refs[k]) THEN EvalFrom(refs, vals, k + 1, total, prod, refs[k].symbol)
  ELSE IF pending = "*" THEN EvalFrom(refs, vals, k + 1, total, prod * vals[k], "")
  ELSE IF pending = "-" THEN EvalFrom(refs, vals, k + 1, total + prod, 0 - vals[k], "")
  ELSE EvalFrom(refs, vals, k + 1, total + prod, vals[k], "")

Eval(refs, vals) == EvalFrom(refs, vals, 1, 0, 0, "")

\* the value of the Model item yields from refs: the composite the rewrite
\* makes stands for the sum, difference or product of the refs it replaces
SuccessorValue(refs, item, xv) ==
  LET succ == RewriteOf(refs, cache, item).model.refs
  IN IF item.gen = "sum"
     THEN Eval(succ, ValuesOf(succ, xv, item.iPos + 1,
                              Apply(EffectiveOp(refs[item.jPos + 1]),
                                    Denote(refs[item.iPos + 1], xv),
                                    Denote(refs[item.jPos + 1], xv))))
     ELSE IF item.gen = "mul"
     THEN Eval(succ, ValuesOf(succ, xv, item.iPos,
                              Denote(refs[item.iPos], xv) * Denote(refs[item.iPos + 2], xv)))
     ELSE Eval(succ, ValuesOf(succ, xv, 0, 0))

\* C20: every Model a generator yields from a Model of the search denotes,
\* for every value of x, the same integer as the Model it was yielded from.
C20_RewritesPreserveValue ==
  \A i \in 1..Len(models) :
    models[i].delayedOp = NoDelayedOp =>
      \A k \in 1..Len(AllRewrites(models[i].refs)) : \A xv \in Assignments :
        SuccessorValue(models[i].refs, AllRewrites(models[i].refs)[k], xv)
          = Eval(models[i].refs, ValuesOf(models[i].refs, xv, 0, 0))

\* the multiplexer's state when getAllActions(models[i]) has taken the first
\* Model of every generator
MuxStart(i) ==
  FirstOfEach([cache |-> cache, models |-> models, heap |-> <<>>, mheap |-> <<>>,
               gens |-> StartGenerators(models[i].refs), isEnd |-> TRUE], 1, i)

RECURSIVE MuxYields(_, _)
\* the totalApproxCost of the Models getAllActions yields, in yield order,
\* for a consumer that takes them one by one and leaves the generators alone
MuxYields(E, i) ==
  IF Len(E.mheap) = 0 THEN <<>>
  ELSE <<heapPop(E.mheap).item.pri>>
         \o MuxYields(PushUnlessDone(GenNext([E EXCEPT !.mheap = heapPop(E.mheap).heap],
                                             heapPop(E.mheap).item.gen, i),
                                     heapPop(E.mheap).item.gen), i)

NonDecreasing(seq) == \A k \in 1..(Len(seq) - 1) : seq[k] <= seq[k + 1]

\* C21: for every Model the driver has expanded, the Models getAllActions
\* yields for it come in non-decreasing totalApproxCost.
C21_MuxYieldsInCostOrder ==
  \A i \in 1..Len(models) :
    ChildrenOf(i) # {} => NonDecreasing(MuxYields(MuxStart(i), i))

\* the local costs of the rewrites generator g yields for refs, in yield order
LocalCosts(refs, g) ==
  [k \in 1..Len(StartGenerators(refs)[g]) |-> StartGenerators(refs)[g][k].cost]

GeneratorNames == {ALL_ACTIONS[k] : k \in 1..Len(ALL_ACTIONS)}

\* C22: for every Model the driver has expanded, each rewrite generator yields
\* its successors in non-decreasing local rewrite cost.
C22_GeneratorsYieldInCostOrder ==
  \A i \in 1..Len(models) :
    ChildrenOf(i) # {} =>
      \A g \in GeneratorNames : NonDecreasing(LocalCosts(models[i].refs, g))

\* the number of rewrites the generators offer for refs
Offered(refs) ==
  Len(applySumScan(refs)) + Len(applyMul(refs)) + Len(applyCancel(refs)) + Len(applyCleanup(refs))

\* C23: when the driver expands a Model, every rewrite its generators offer
\* reaches the driver's loop body as a yielded Model: each is created, and
\* each whose key is not visited is on the frontier after the expansion, the
\* ones passed over by the continue-while-improving step included.
C23_SkippedSuccessorStillYielded ==
  [][Len(models') > Len(models) /\ pc' = "search" =>
       /\ Cardinality({k \in (Len(models) + 1)..Len(models') : models'[k].yielded})
            = Offered(models[PoppedId].refs)
       /\ \A k \in (Len(models) + 1)..Len(models') :
            models'[k].yielded /\ modelToKey(models'[k]) \notin visited'
              => k \in HeapIds(heap')]_vars

\* C24: every Model a rewrite generator has yielded has, as its parent, the
\* Model the generator was given.
C24_ParentIsGivenModel ==
  \A k \in 1..Len(models) : models[k].yielded => models[k].parent = models[k].given

\* the Model created just before k is the pending sum_scan Model of k
AfterPending(k) == k > 1 /\ models[k - 1].delayedOp # NoDelayedOp /\ ~models[k - 1].yielded

\* C24 as the code has it: a Model yielded by applyMul, applyCancel or
\* applyCleanup has the given Model as its parent; a Model yielded by applySum
\* has as its parent the pending sum_scan Model built for its pair, which has
\* the given Model's refs and the given Model as its parent.
C24_ParentIsGivenOrItsScan ==
  \A k \in 1..Len(models) :
    models[k].yielded =>
      IF AfterPending(k)
      THEN /\ models[k].parent = k - 1
           /\ models[k - 1].parent = models[k].given
           /\ models[k - 1].refs = models[models[k].given].refs
      ELSE models[k].parent = models[k].given

C24_Witness ==
  /\ \E k \in 1..Len(models) : models[k].yielded /\ AfterPending(k)
  /\ \E k \in 1..Len(models) : models[k].yielded /\ ~AfterPending(k)

\* the step expands the popped Model
ExpandsPopped ==
  /\ pc = "search" /\ Len(heap) > 0
  /\ modelToKey(models[PoppedId]) \notin visited
  /\ ~isGoal(models[PoppedId].refs)
  /\ visited' = visited \cup {modelToKey(models[PoppedId])}

\* the Models the generators yielded during the step
YieldedInStep == {k \in (Len(models) + 1)..Len(models') : models'[k].yielded}

\* C25: a popped non-goal Model is appended to endOfChain exactly when the
\* generators yielded no Model at all for it.
C25_EndOfChainIffNoSuccessor ==
  [][ExpandsPopped =>
       (endOfChain' = Append(endOfChain, PoppedId)) = (YieldedInStep = {})]_vars

\* C25 as the code has it: the popped Model is appended to endOfChain exactly
\* when the expansion pushed nothing onto the frontier, and then every Model
\* the generators yielded for it has a key that is already visited.
C25_EndOfChainIffNothingPushed ==
  [][ExpandsPopped =>
       /\ (endOfChain' = Append(endOfChain, PoppedId))
            = (HeapIds(heap') \subseteq HeapIds(heap))
       /\ endOfChain' # endOfChain =>
            \A k \in YieldedInStep : modelToKey(models'[k]) \in visited'
       /\ endOfChain' = endOfChain =>
            \E k \in YieldedInStep : k \in HeapIds(heap')]_vars

C25_Witness ==
  /\ lastPop.id # 0
  /\ \E k \in 1..Len(endOfChain) : endOfChain[k] = lastPop.id
  /\ ChildrenOf(lastPop.id) # {}
  /\ \E j \in 1..Len(models) :
       /\ \A k \in 1..Len(endOfChain) : endOfChain[k] # j
       /\ ChildrenOf(j) \cap HeapIds(heap) # {}

\* a composite without a value all of whose operands are numbers with values:
\* its compute thunk can produce a number
Computable(r) == r.value = NoValue /\ \A c \in Operands(r) : isNumber(c) /\ c.value # NoValue

\* C26: when the deferred phase runs over a bucketed Model that holds a
\* computable composite, a Model with changed refs and the bucketed Model's
\* totalApproxCost plus ADD_SINGLE_DIGIT is on the frontier afterwards and
\* the search goes on.
C26_ComputedModelIsRePushed ==
  [][pc = "search" /\ Len(heap) = 0 =>
       \A k \in 1..Len(endOfChain) :
         (\E r \in CompositesIn(models[endOfChain[k]].refs) : Computable(r)) =>
           /\ pc' = "search"
           /\ \E e \in 1..Len(heap') :
                /\ models'[heap'[e].id].refs # models[endOfChain[k]].refs
                /\ models'[heap'[e].id].totalApproxCost
                     = models[endOfChain[k]].totalApproxCost + ADD_SINGLE_DIGIT]_vars

\* C27: every pop of the heap returns, among the entries of the popped
\* entry's priority, the one that was pushed first.
C27_TiesPopInPushOrder ==
  [][Len(heap) > 0 /\ Len(heap') = Len(heap) - 1 =>
       \A k \in 1..Len(heap) :
         heap[k].pri = heapPop(heap).item.pri => PoppedId <= heap[k].id]_vars

NoPower == [v |-> "", p |-> 0]

RECURSIVE PowerOf(_)
\* the named variable and the exponent r stands for, when r is a named
\* variable or a product of powers of one named variable
PowerOf(r) ==
  IF ~isSymbol(r) THEN NoPower
  ELSE IF Len(r.arefs) = 0 THEN [v |-> r.symbol, p |-> 1]
  ELSE IF Len(r.arefs) = 3 /\ tokenEquals(r.arefs[2], "*")
          /\ PowerOf(r.arefs[1]) # NoPower
          /\ PowerOf(r.arefs[1]).v = PowerOf(r.arefs[3]).v
       THEN [v |-> PowerOf(r.arefs[1]).v, p |-> PowerOf(r.arefs[1]).p + PowerOf(r.arefs[3]).p]
       ELSE NoPower

\* 0-based positions i of a '*' in refs between two powers of one named variable
SameVariableProducts(refs) ==
  {i \in 1..(Len(refs) - 2) :
     /\ tokenEquals(refs[i + 1], "*")
     /\ PowerOf(refs[i]) # NoPower
     /\ PowerOf(refs[i]).v = PowerOf(refs[i + 2]).v}

\* C28: for every Model of the search and every adjacent (L, *, R) in which
\* L and R are powers of the same named variable, applyMul yields the
\* same-variable rewrite at that position at cost SAME_VAR_MUL; the composite
\* it builds is [L, *, R], of exponent p + q.
C28_SameVariablePowersMultiply ==
  \A m \in 1..Len(models) : \A i \in SameVariableProducts(models[m].refs) :
    \E k \in 1..Len(applyMul(models[m].refs)) :
      applyMul(models[m].refs)[k] = MulItem(i, "same_var", SAME_VAR_MUL)

\* 0-based positions (i, j), i < j, of two terms outside any product that are
\* the same named variable at the same power
SameVariablePairs(refs) ==
  {ij \in TermIndices(refs) \X TermIndices(refs) :
     /\ ij[1] < ij[2]
     /\ ~isPartOfMultiplication(refs, ij[1]) /\ ~isPartOfMultiplication(refs, ij[2])
     /\ PowerOf(refs[ij[1] + 1]) # NoPower
     /\ PowerOf(refs[ij[1] + 1]) = PowerOf(refs[ij[2] + 1])}

\* r is 2*v for an added refB, the number 0 for a subtracted one
TwiceOrZero(r, refB) ==
  IF EffectiveOp(refB) = "-" THEN isNumber(r) /\ r.value = <<0>>
  ELSE /\ Len(r.arefs) = 3
       /\ isNumber(r.arefs[1]) /\ r.arefs[1].value = <<2>>
       /\ tokenEquals(r.arefs[2], "*")
       /\ PowerOf(r.arefs[3]) = PowerOf(refB)

\* C29: for every Model the driver has expanded and every two of its terms
\* that are the same named variable at the same power, applySum yields the
\* rewrite of that pair, and the ref that replaces the pair is 2*v when the
\* second term is added and a number ref of value 0 when it is subtracted.
C29_SameVariableTermsCombine ==
  \A m \in 1..Len(models) :
    (modelToKey(models[m]) \in visited /\ ~isGoal(models[m].refs)) =>
      \A ij \in SameVariablePairs(models[m].refs) :
        \E k \in 1..Len(applySumScan(models[m].refs)) :
          /\ applySumScan(models[m].refs)[k].iPos = ij[1]
          /\ applySumScan(models[m].refs)[k].jPos = ij[2]
          /\ TwiceOrZero(createSymbolRef(cache, <<models[m].refs[ij[1] + 1],
                                                  models[m].refs[ij[2] + 1]>>).ref,
                         models[m].refs[ij[2] + 1])

\* the calls of onMessage that deliver the messages 1..n in order, each to
\* every actor in order
InOrder(n) ==
  [k \in 1..(n * Len(Actors)) |->
     <<((k - 1) \div Len(Actors)) + 1, ((k - 1) % Len(Actors)) + 1>>]

====
